---- MODULE Spec2Model ----
(***************************************************************************)
(* Model of embedded-types: io (blocking, Write::write_all / write_str /   *)
(* write_fmt) and can (BaseID, ExtendedID, DataFrame).                      *)
(* Each component has its own variables, its own initial predicate and its *)
(* own next-state relation; a component that a specification does not      *)
(* exercise stays in its idle state.                                        *)
(***************************************************************************)
EXTENDS Integers, Sequences, FiniteSets, TLC

VARIABLES
    \* ---- io::blocking ----
    bl_N,        \* the operation's script: number of leading retryable errors (Forever: all)
    bl_busy,     \* the retryable error value the operation produces while busy
    bl_final,    \* the operation's first non-retryable result
    bl_pc,       \* "idle" | "loop" | "returned"
    bl_calls,    \* invocations of non_blocking so far
    bl_ret,      \* what blocking returned
    \* ---- a Write implementor ----
    wr_kind,     \* "chunk" | "all" | "any": how write answers
    wr_K,        \* chunk writer: bytes accepted per call at most
    wr_sink,     \* the bytes the writer has accepted, in order
    wr_honest,   \* FALSE once write has reported more bytes than it was given
    wr_stalls,   \* answers without progress (Ok(0), Err(BufferExhausted)) so far
    \* ---- Write::write_all ----
    wa_buf,      \* buf
    wa_written,  \* bytes_written
    wa_pc,       \* "idle" | "loop" | "returned"
    wa_ret,      \* what write_all returned
    wa_calls,    \* calls of write so far
    wa_at,       \* bytes_written when write was last called
    wa_arg,      \* the slice write was last called with
    wa_last,     \* what write last answered
    wa_errAt,    \* the call of write that first answered an error other than BufferExhausted
    \* ---- Write::write_fmt ----
    fmt_lits,    \* the literal pieces of the format string
    fmt_args,    \* the arguments, each a str
    fmt_todo,    \* the strs fmt::write has still to pass to Adapter::write_str
    fmt_pc,      \* "idle" | "fmt" | "returned"
    fmt_error,   \* adapter.error ("none" for None)
    fmt_ret,     \* what write_fmt returned
    \* ---- can::BaseID / can::ExtendedID ----
    id_kind,     \* "Base" | "Extended": which constructor is called
    id_in,       \* the raw value passed to new (a u32 is kept as its two 16-bit halves)
    id_pc,       \* "idle" | "input" | "built" | "panicked" | "converted"
    id_obj,      \* the identifier new returned
    id_out,      \* what u16::from / u32::from returned for it
    \* ---- can::DataFrame ----
    fr,          \* the frame
    fr_panic,    \* "none", or the call that panicked: "set_data_length" | "index"
    fr_arg,      \* the length last passed to set_data_length since new (NoArg: none)
    \* ---- a caller that sets a frame's length and payload ----
    sc_order,    \* "none" | "length_then_fill" | "fill_then_length"
    sc_how,      \* how the payload is written through the view: "index" | "zip"
    sc_B,        \* the payload bytes B
    sc_step      \* calls made after DataFrame::new

blVars == <<bl_N, bl_busy, bl_final, bl_pc, bl_calls, bl_ret>>
wrVars == <<wr_kind, wr_K, wr_sink, wr_honest, wr_stalls>>
waVars == <<wa_buf, wa_written, wa_pc, wa_ret, wa_calls, wa_at, wa_arg, wa_last, wa_errAt>>
fmtVars == <<fmt_lits, fmt_args, fmt_todo, fmt_pc, fmt_error, fmt_ret>>
idVars == <<id_kind, id_in, id_pc, id_obj, id_out>>
frVars == <<fr, fr_panic, fr_arg>>
scVars == <<sc_order, sc_how, sc_B, sc_step>>
ioVars == <<blVars, wrVars, waVars, fmtVars>>
canVars == <<idVars, frVars, scVars>>
vars == <<ioVars, canVars>>

Min(a, b) == IF a < b THEN a ELSE b

(***************************************************************************)
(* Results: result::Result<O, E> with O an integer and E an error value.   *)
(***************************************************************************)
Ok(v) == [tag |-> "Ok", val |-> v, err |-> "none"]
Err(e) == [tag |-> "Err", val |-> 0, err |-> e]
NoResult == [tag |-> "None", val |-> 0, err |-> "none"]

\* io::Error
Error == {"BufferExhausted", "InvalidInput", "ErrorDetectionCode", "Other"}

\* E: Into<Error> + Clone. Either io::Error itself or a driver's own error
\* type with a From conversion into io::Error.
DriverError == Error \cup {"TxFifoFull", "Parity"}

into(x) ==
    CASE x = "TxFifoFull" -> "BufferExhausted"
      [] x = "Parity" -> "ErrorDetectionCode"
      [] OTHER -> x

(***************************************************************************)
(* Idle states of the components.                                          *)
(***************************************************************************)
IdleBlocking ==
    /\ bl_N = 0
    /\ bl_busy = "BufferExhausted"
    /\ bl_final = Ok(0)
    /\ bl_pc = "idle"
    /\ bl_calls = 0
    /\ bl_ret = NoResult

IdleWriter ==
    /\ wr_kind = "all"
    /\ wr_K = 1
    /\ wr_sink = <<>>
    /\ wr_honest = TRUE
    /\ wr_stalls = 0

IdleWriteAll ==
    /\ wa_buf = <<>>
    /\ wa_written = 0
    /\ wa_pc = "idle"
    /\ wa_ret = NoResult
    /\ wa_calls = 0
    /\ wa_at = 0
    /\ wa_arg = <<>>
    /\ wa_last = NoResult
    /\ wa_errAt = 0

IdleFmt ==
    /\ fmt_lits = <<>>
    /\ fmt_args = <<>>
    /\ fmt_todo = <<>>
    /\ fmt_pc = "idle"
    /\ fmt_error = "none"
    /\ fmt_ret = NoResult

NoID == [type |-> "none", raw |-> 0]
NoFrame == [kind |-> "none", id |-> NoID, dlc |-> 0, data |-> <<>>]
NoArg == 0 - 1

IdleID ==
    /\ id_kind = "Base"
    /\ id_in = 0
    /\ id_pc = "idle"
    /\ id_obj = NoID
    /\ id_out = 0

IdleFrame ==
    /\ fr = NoFrame
    /\ fr_panic = "none"
    /\ fr_arg = NoArg

IdleScenario ==
    /\ sc_order = "none"
    /\ sc_how = "index"
    /\ sc_B = <<>>
    /\ sc_step = 0

IdleCan == IdleID /\ IdleFrame /\ IdleScenario

IdleIo == IdleBlocking /\ IdleWriter /\ IdleWriteAll /\ IdleFmt

(***************************************************************************)
(* io::blocking                                                            *)
(***************************************************************************)
MaxRetries == 4
Forever == 0 - 1
CallCap == MaxRetries + 2
OkValues == {0, 42}

\* The operation passed to blocking: retryable on its first bl_N calls (on
\* every call when bl_N = Forever), then bl_final.
non_blocking(i) ==
    IF bl_N = Forever \/ i <= bl_N THEN Err(bl_busy) ELSE bl_final

\* Mutant: every Err is returned, the retryable one too.
BlockingMatchNoRetry(r) ==
    IF r.tag = "Err"
    THEN [done |-> TRUE, ret |-> Err(r.err)]
    ELSE [done |-> TRUE, ret |-> Ok(r.val)]

\* Mutant: the error is returned after its conversion into io::Error.
BlockingMatchConverted(r) ==
    IF r.tag = "Err"
    THEN IF into(r.err) # "BufferExhausted"
         THEN [done |-> TRUE, ret |-> Err(into(r.err))]
         ELSE [done |-> FALSE, ret |-> NoResult]
    ELSE [done |-> TRUE, ret |-> Ok(r.val)]

\* The match of one loop iteration on the operation's result r.
BlockingMatch(r) ==
    IF r.tag = "Err"
    THEN IF into(r.err) # "BufferExhausted"
         THEN [done |-> TRUE, ret |-> Err(r.err)]
         ELSE [done |-> FALSE, ret |-> NoResult]
    ELSE [done |-> TRUE, ret |-> Ok(r.val)]

InitBlockingVars ==
    /\ bl_N \in (0..MaxRetries) \cup {Forever}
    /\ bl_busy \in {x \in DriverError : into(x) = "BufferExhausted"}
    /\ bl_final \in {Ok(v) : v \in OkValues}
                    \cup {Err(x) : x \in {y \in DriverError : into(y) # "BufferExhausted"}}
    /\ bl_pc = "loop"
    /\ bl_calls = 0
    /\ bl_ret = NoResult

\* One iteration of the loop: invoke the operation, match on its result.
\* The invocation counter saturates at CallCap, which only the Forever
\* script reaches.
BlockingIter ==
    /\ bl_pc = "loop"
    /\ LET out == BlockingMatch(non_blocking(bl_calls + 1)) IN
        /\ bl_calls' = Min(bl_calls + 1, CallCap)
        /\ bl_pc' = IF out.done THEN "returned" ELSE "loop"
        /\ bl_ret' = out.ret
    /\ UNCHANGED <<bl_N, bl_busy, bl_final>>
    /\ UNCHANGED <<wrVars, waVars, fmtVars, canVars>>

NextBlocking == BlockingIter

InitBlocking == InitBlockingVars /\ IdleWriter /\ IdleWriteAll /\ IdleFmt /\ IdleCan
SpecBlocking == InitBlocking /\ [][NextBlocking]_vars
SpecBlockingFair == SpecBlocking /\ WF_vars(BlockingIter)

\* C1: as long as the operation answers Err(BufferExhausted), blocking has not
\* returned and keeps invoking it; with N retryable answers followed by Ok(v),
\* blocking returns, and what it returns is Ok(v) after exactly N+1
\* invocations; when every answer is Err(BufferExhausted) it never returns.
C1_RetryUntilOk ==
    /\ [](bl_pc = "loop" /\ bl_N # Forever => bl_calls <= bl_N)
    /\ [](bl_pc = "returned" /\ bl_final.tag = "Ok"
            => bl_N # Forever /\ bl_ret = bl_final /\ bl_calls = bl_N + 1)
    /\ [](bl_N = Forever => bl_pc = "loop" /\ bl_ret = NoResult)
    /\ ((bl_N # Forever /\ bl_final.tag = "Ok") ~> (bl_pc = "returned"))

C1_Witness ==
    /\ bl_N = 3 /\ bl_final = Ok(42)
    /\ bl_pc = "returned" /\ bl_ret = Ok(42) /\ bl_calls = 4

\* C2: an error that does not convert to BufferExhausted ends blocking at
\* once: the operation is not invoked again (N+1 invocations in all) and the
\* error returned is the very value the operation produced.
C2_OtherErrorsPropagate ==
    bl_pc = "returned" /\ bl_final.tag = "Err"
        => bl_ret = bl_final /\ bl_calls = bl_N + 1

C2_Witness ==
    /\ bl_pc = "returned" /\ bl_N = 2 /\ bl_calls = 3
    /\ bl_final = Err("Parity") /\ bl_ret = Err("Parity")

(***************************************************************************)
(* A Write implementor: what write(buf) answers.                           *)
(*   "chunk": accepts min(wr_K, buf.len()) bytes and never errors;         *)
(*   "all":   tests::write_test's TestBuffer, which accepts every byte;    *)
(*   "any":   any answer the signature allows: Ok(n) with n up to one more *)
(*            than it was given, or any io::Error.                         *)
(***************************************************************************)
MaxStalls == 2
TestBufferLen == 100

WriterAnswers(arg) ==
    CASE wr_kind = "chunk" -> {Ok(Min(wr_K, Len(arg)))}
      [] wr_kind = "all" -> {Ok(Len(arg))}
      [] OTHER ->
            {Ok(n) : n \in (IF wr_stalls < MaxStalls THEN 0 ELSE 1)..(Len(arg) + 1)}
            \cup {Err(e) : e \in {x \in Error :
                                    x # "BufferExhausted" \/ wr_stalls < MaxStalls}}

\* The writer's state after it answered r to write(arg): it holds the bytes it
\* reported as written.
WriterAccepts(arg, r) ==
    /\ wr_sink' = IF r.tag = "Ok"
                  THEN wr_sink \o SubSeq(arg, 1, Min(r.val, Len(arg)))
                  ELSE wr_sink
    /\ wr_honest' = (wr_honest /\ (r.tag = "Ok" => r.val <= Len(arg)))
    /\ wr_stalls' = IF r = Ok(0) \/ r = Err("BufferExhausted")
                    THEN wr_stalls + 1 ELSE wr_stalls
    /\ UNCHANGED <<wr_kind, wr_K>>

(***************************************************************************)
(* Write::write_all                                                        *)
(***************************************************************************)
MaxBufLen == 4
MaxK == 3
BufBytes == {7, 9}

RECURSIVE SeqsUpTo(_, _)
SeqsUpTo(S, n) ==
    IF n = 0 THEN {<<>>}
    ELSE LET shorter == SeqsUpTo(S, n - 1) IN
         shorter \cup {Append(q, x) : q \in {t \in shorter : Len(t) = n - 1}, x \in S}

\* Mutant: the loop stops one byte early.
WriteAllContinuesEarlyStop(buf, bytes_written) == bytes_written + 1 < Len(buf)

\* while bytes_written < buf.len()
WriteAllContinues(buf, bytes_written) == bytes_written < Len(buf)

\* Mutant: write is always passed the whole buffer.
WriteAllSliceWhole(buf, bytes_written) == buf

\* &buf[bytes_written..]
WriteAllSlice(buf, bytes_written) == SubSeq(buf, bytes_written + 1, Len(buf))

\* Mutant: Err(BufferExhausted) is propagated like any other error.
WriteAllMatchNoRetry(bytes_written, r) ==
    CASE r.tag = "Ok" ->
            [written |-> bytes_written + r.val, done |-> FALSE, ret |-> NoResult]
      [] OTHER ->
            [written |-> bytes_written, done |-> TRUE, ret |-> Err(r.err)]

\* The match on what write answered.
WriteAllMatch(bytes_written, r) ==
    CASE r.tag = "Ok" ->
            [written |-> bytes_written + r.val, done |-> FALSE, ret |-> NoResult]
      [] r.tag = "Err" /\ r.err = "BufferExhausted" ->
            [written |-> bytes_written, done |-> FALSE, ret |-> NoResult]
      [] OTHER ->
            [written |-> bytes_written, done |-> TRUE, ret |-> Err(r.err)]

\* write_all is entered with buf: let mut bytes_written = 0.
WriteAllEnter(buf) ==
    /\ wa_buf' = buf
    /\ wa_written' = 0
    /\ wa_pc' = "loop"
    /\ wa_ret' = NoResult
    /\ wa_calls' = 0
    /\ wa_at' = 0
    /\ wa_arg' = <<>>
    /\ wa_last' = NoResult
    /\ wa_errAt' = 0

\* One iteration of the loop: write is called with the rest of buf and its
\* answer matched.
WriteAllCall ==
    /\ wa_pc = "loop"
    /\ WriteAllContinues(wa_buf, wa_written)
    /\ LET arg == WriteAllSlice(wa_buf, wa_written) IN
       \E r \in WriterAnswers(arg) :
          LET out == WriteAllMatch(wa_written, r) IN
            /\ wr_kind = "all" => Len(wr_sink) + Len(arg) <= TestBufferLen
            /\ WriterAccepts(arg, r)
            /\ wa_calls' = wa_calls + 1
            /\ wa_at' = wa_written
            /\ wa_arg' = arg
            /\ wa_last' = r
            /\ wa_errAt' = IF wa_errAt = 0 /\ r.tag = "Err" /\ r.err # "BufferExhausted"
                           THEN wa_calls + 1 ELSE wa_errAt
            /\ wa_written' = out.written
            /\ wa_pc' = IF out.done THEN "returned" ELSE "loop"
            /\ wa_ret' = out.ret
    /\ UNCHANGED <<wa_buf, blVars, fmtVars, canVars>>

\* The loop ends: Ok(()).
WriteAllReturn ==
    /\ wa_pc = "loop"
    /\ ~WriteAllContinues(wa_buf, wa_written)
    /\ wa_pc' = "returned"
    /\ wa_ret' = Ok(0)
    /\ UNCHANGED <<wa_buf, wa_written, wa_calls, wa_at, wa_arg, wa_last, wa_errAt>>
    /\ UNCHANGED <<wrVars, blVars, fmtVars, canVars>>

InitWriter(kinds) ==
    /\ wr_kind \in kinds
    /\ wr_K \in IF wr_kind = "chunk" THEN 1..MaxK ELSE {1}
    /\ wr_sink = <<>>
    /\ wr_honest = TRUE
    /\ wr_stalls = 0

InitWriteAll ==
    /\ InitWriter({"chunk", "any"})
    /\ wa_buf \in SeqsUpTo(BufBytes, MaxBufLen)
    /\ wa_written = 0
    /\ wa_pc = "loop"
    /\ wa_ret = NoResult
    /\ wa_calls = 0
    /\ wa_at = 0
    /\ wa_arg = <<>>
    /\ wa_last = NoResult
    /\ wa_errAt = 0
    /\ IdleBlocking /\ IdleFmt /\ IdleCan

NextWriteAll == WriteAllCall \/ WriteAllReturn

SpecWriteAll == InitWriteAll /\ [][NextWriteAll]_vars

CeilDiv(m, k) == (m + k - 1) \div k

\* C3: over a writer that never errors and accepts min(K, remaining) bytes per
\* call, write_all on a buffer of length M > K has called write exactly
\* ceil(M/K) times when it returns, and it returns Ok(()).
C3_ChunkedCallCount ==
    wr_kind = "chunk" /\ wa_pc = "returned" /\ Len(wa_buf) > wr_K
        => wa_ret = Ok(0) /\ wa_calls = CeilDiv(Len(wa_buf), wr_K)

C3_Witness ==
    /\ wr_kind = "chunk" /\ wr_K = 3 /\ Len(wa_buf) = 4
    /\ wa_pc = "returned" /\ wa_ret = Ok(0) /\ wa_calls = 2

\* C4: after write answers Err(BufferExhausted) write_all is still looping
\* with the cumulative count unchanged; the first other error ends write_all
\* with that error and no later call of write; Ok(0) leaves write_all looping,
\* neither succeeded nor failed.
C4_RetryAndPropagate ==
    /\ wa_last = Err("BufferExhausted")
        => wa_pc = "loop" /\ wa_written = wa_at /\ wa_ret = NoResult
    /\ wa_errAt # 0
        => /\ wa_pc = "returned" /\ wa_calls = wa_errAt
           /\ wa_ret = wa_last /\ wa_ret.tag = "Err" /\ wa_ret.err # "BufferExhausted"
    /\ wa_ret.tag = "Err" => wa_errAt # 0
    /\ wa_last = Ok(0) => wa_pc = "loop" /\ wa_written = wa_at /\ wa_ret = NoResult

C4_Witness ==
    /\ wa_pc = "returned" /\ wa_ret = Err("InvalidInput")
    /\ wa_calls = 3 /\ wr_stalls = 2 /\ wa_written = 0

\* C10: write is always called with the suffix of buf that starts at the
\* cumulative count; over a writer that never reports more than it was given
\* the accepted bytes are the prefix of buf of that length; Ok(()) is returned
\* only with the count at buf.len() or beyond, and for an empty buf without a
\* call of write.
C10_SuffixAndPrefix ==
    /\ wa_calls > 0 => wa_at < Len(wa_buf) /\ SubSeq(wa_buf, 1, wa_at) \o wa_arg = wa_buf
    /\ wr_honest => wa_written <= Len(wa_buf) /\ wr_sink = SubSeq(wa_buf, 1, wa_written)
    /\ wa_pc = "returned" /\ wa_ret.tag = "Ok" => wa_written >= Len(wa_buf)
    /\ wa_pc = "returned" /\ Len(wa_buf) = 0 => wa_ret = Ok(0) /\ wa_calls = 0

C10_Witness ==
    /\ wr_kind = "any" /\ wr_honest /\ wa_pc = "returned" /\ wa_ret = Ok(0)
    /\ Len(wa_buf) = 4 /\ wa_buf[1] # wa_buf[2] /\ wr_stalls = 2
    /\ wa_calls = 5 /\ wr_sink = wa_buf

(***************************************************************************)
(* Write::write_str and Write::write_fmt                                   *)
(* A str is the sequence of its characters' code points; as_bytes is its   *)
(* UTF-8 encoding (characters below U+0800 suffice here).                  *)
(***************************************************************************)
Utf8(c) == IF c < 128 THEN <<c>> ELSE <<192 + (c \div 64), 128 + (c % 64)>>

RECURSIVE as_bytes(_)
as_bytes(s) == IF s = <<>> THEN <<>> ELSE Utf8(Head(s)) \o as_bytes(Tail(s))

\* The format strings and arguments written: (literal pieces, arguments).
\* "This {} a {}" with "is", "test" is tests::write_test's.
FmtCases ==
    { << << <<84, 104, 105, 115, 32>>, <<32, 97, 32>> >>,
         << <<105, 115>>, <<116, 101, 115, 116>> >> >>,
      << << <<233>> >>, <<>> >>,
      << << <<>>, <<98>> >>, << <<97>> >> >>,
      << << <<120>> >>, << <<>> >> >>,
      << << <<>> >>, << <<233, 97>> >> >> }

\* core::fmt::write over the Adapter: for each argument, the literal piece
\* before it (when not empty) and then the argument are passed to write_str;
\* a literal piece after the last argument follows.
RECURSIVE FmtWriteStrCalls(_, _, _)
FmtWriteStrCalls(lits, args, i) ==
    IF i > Len(args)
    THEN IF i <= Len(lits) THEN <<lits[i]>> ELSE <<>>
    ELSE (IF lits[i] # <<>> THEN <<lits[i]>> ELSE <<>>)
         \o <<args[i]>> \o FmtWriteStrCalls(lits, args, i + 1)

\* Adapter::write_str: the outcome of Write::write_str(self.inner, s) is kept
\* in self.error when it is an error.
AdapterWriteStr(error, r) ==
    IF r.tag = "Ok"
    THEN [ok |-> TRUE, error |-> error]
    ELSE [ok |-> FALSE, error |-> r.err]

\* match adapter.error
WriteFmtResult(error) == IF error # "none" THEN Err(error) ELSE Ok(0)

\* fmt::write passes the next str to Adapter::write_str, which enters
\* Write::write_str: self.write_all(s.as_bytes()).
FmtWriteStr ==
    /\ fmt_pc = "fmt"
    /\ wa_pc = "idle"
    /\ fmt_todo # <<>>
    /\ WriteAllEnter(as_bytes(Head(fmt_todo)))
    /\ fmt_todo' = Tail(fmt_todo)
    /\ UNCHANGED <<fmt_lits, fmt_args, fmt_pc, fmt_error, fmt_ret>>
    /\ UNCHANGED <<wrVars, blVars, canVars>>

\* write_all has returned into Adapter::write_str; on an error fmt::write
\* gives up the strs that remain.
FmtStrReturned ==
    /\ fmt_pc = "fmt"
    /\ wa_pc = "returned"
    /\ LET a == AdapterWriteStr(fmt_error, wa_ret) IN
        /\ fmt_error' = a.error
        /\ fmt_todo' = IF a.ok THEN fmt_todo ELSE <<>>
    /\ wa_pc' = "idle"
    /\ UNCHANGED <<fmt_lits, fmt_args, fmt_pc, fmt_ret>>
    /\ UNCHANGED <<wa_buf, wa_written, wa_ret, wa_calls, wa_at, wa_arg, wa_last, wa_errAt>>
    /\ UNCHANGED <<wrVars, blVars, canVars>>

\* fmt::write is over: write_fmt returns by adapter.error.
FmtReturn ==
    /\ fmt_pc = "fmt"
    /\ wa_pc = "idle"
    /\ fmt_todo = <<>>
    /\ fmt_ret' = WriteFmtResult(fmt_error)
    /\ fmt_pc' = "returned"
    /\ UNCHANGED <<fmt_lits, fmt_args, fmt_todo, fmt_error>>
    /\ UNCHANGED <<wrVars, waVars, blVars, canVars>>

InitFmt ==
    /\ InitWriter({"all", "chunk", "any"})
    /\ \E c \in FmtCases :
        /\ fmt_lits = c[1]
        /\ fmt_args = c[2]
        /\ fmt_todo = FmtWriteStrCalls(c[1], c[2], 1)
    /\ fmt_pc = "fmt"
    /\ fmt_error = "none"
    /\ fmt_ret = NoResult
    /\ IdleWriteAll /\ IdleBlocking /\ IdleCan

NextFmt == FmtWriteStr \/ WriteAllCall \/ WriteAllReturn \/ FmtStrReturned \/ FmtReturn

SpecFmt == InitFmt /\ [][NextFmt]_vars

\* The formatted string: every literal piece and argument in turn.
RECURSIVE Formatted(_, _)
Formatted(lits, args) ==
    IF lits = <<>> THEN <<>>
    ELSE Head(lits) \o (IF args = <<>> THEN <<>>
                        ELSE Head(args) \o Formatted(Tail(lits), Tail(args)))

IsPrefix(p, q) == Len(p) <= Len(q) /\ SubSeq(q, 1, Len(p)) = p

\* C9: over a writer that accepts every byte it is given, write_fmt hands
\* write the bytes of the formatted string in order (what the writer holds is
\* always a prefix of them) and, when it returns, it returns Ok(()) with the
\* writer holding exactly those bytes.
C9_FormattedBytes ==
    wr_kind = "all" =>
        LET want == as_bytes(Formatted(fmt_lits, fmt_args)) IN
        /\ IsPrefix(wr_sink, want)
        /\ fmt_pc = "returned" => fmt_ret = Ok(0) /\ wr_sink = want

\* "This is a test"
C9_Witness ==
    /\ wr_kind = "all" /\ fmt_pc = "returned" /\ fmt_ret = Ok(0)
    /\ fmt_args = << <<105, 115>>, <<116, 101, 115, 116>> >>
    /\ wr_sink = <<84, 104, 105, 115, 32, 105, 115, 32, 97, 32, 116, 101, 115, 116>>

(***************************************************************************)
(* can::BaseID and can::ExtendedID                                         *)
(* A u16 is an integer in 0..65535. A u32 is the pair of its 16-bit halves *)
(* [hi, lo] (value hi * 2^16 + lo), so that every u32 is representable.    *)
(***************************************************************************)
U16 == 0..65535

RECURSIVE BitAnd(_, _)
BitAnd(a, b) ==
    IF a = 0 \/ b = 0 THEN 0
    ELSE (a % 2) * (b % 2) + 2 * BitAnd(a \div 2, b \div 2)

U32(hi, lo) == [hi |-> hi, lo |-> lo]
BitAnd32(a, b) == U32(BitAnd(a.hi, b.hi), BitAnd(a.lo, b.lo))

\* 0xf800
BaseMask == 63488
\* 0xe000_0000
ExtendedMask == U32(57344, 0)

\* Mutant: the mask misses bit 11 (0xf000).
BaseID_new_WrongMask(id) ==
    IF BitAnd(id, 61440) = 0
    THEN [ok |-> TRUE, id |-> [type |-> "BaseID", raw |-> id]]
    ELSE [ok |-> FALSE, id |-> NoID]

\* BaseID::new: assert_eq!(id & 0xf800, 0); BaseID(id)
BaseID_new(id) ==
    IF BitAnd(id, BaseMask) = 0
    THEN [ok |-> TRUE, id |-> [type |-> "BaseID", raw |-> id]]
    ELSE [ok |-> FALSE, id |-> NoID]

\* From<BaseID> for u16
u16_from_BaseID(id) == id.raw

\* ExtendedID::new: assert_eq!(id & 0xe000_0000, 0); ExtendedID(id)
ExtendedID_new(id) ==
    IF BitAnd32(id, ExtendedMask) = U32(0, 0)
    THEN [ok |-> TRUE, id |-> [type |-> "ExtendedID", raw |-> id]]
    ELSE [ok |-> FALSE, id |-> NoID]

\* From<ExtendedID> for u32
u32_from_ExtendedID(id) == id.raw

\* The 32-bit inputs tried: the halves around the 29-bit boundary.
HiSamples == {0, 1, 4660, 8191, 8192, 8193, 16383, 16384, 32768, 57344, 65535}
LoSamples == {0, 1, 291, 65535}

InitID ==
    /\ id_kind \in {"Base", "Extended"}
    /\ id_in \in IF id_kind = "Base" THEN U16
                 ELSE {U32(h, l) : h \in HiSamples, l \in LoSamples}
    /\ id_pc = "input"
    /\ id_obj = NoID
    /\ id_out = 0
    /\ IdleFrame /\ IdleScenario /\ IdleIo

BaseIDNew ==
    /\ id_pc = "input" /\ id_kind = "Base"
    /\ LET r == BaseID_new(id_in) IN
        /\ id_pc' = IF r.ok THEN "built" ELSE "panicked"
        /\ id_obj' = r.id
    /\ UNCHANGED <<id_kind, id_in, id_out, frVars, scVars, ioVars>>

ExtendedIDNew ==
    /\ id_pc = "input" /\ id_kind = "Extended"
    /\ LET r == ExtendedID_new(id_in) IN
        /\ id_pc' = IF r.ok THEN "built" ELSE "panicked"
        /\ id_obj' = r.id
    /\ UNCHANGED <<id_kind, id_in, id_out, frVars, scVars, ioVars>>

BaseIDInto ==
    /\ id_pc = "built" /\ id_obj.type = "BaseID"
    /\ id_out' = u16_from_BaseID(id_obj)
    /\ id_pc' = "converted"
    /\ UNCHANGED <<id_kind, id_in, id_obj, frVars, scVars, ioVars>>

ExtendedIDInto ==
    /\ id_pc = "built" /\ id_obj.type = "ExtendedID"
    /\ id_out' = u32_from_ExtendedID(id_obj)
    /\ id_pc' = "converted"
    /\ UNCHANGED <<id_kind, id_in, id_obj, frVars, scVars, ioVars>>

NextID == BaseIDNew \/ ExtendedIDNew \/ BaseIDInto \/ ExtendedIDInto

SpecID == InitID /\ [][NextID]_vars

\* C8: BaseID::new(v) succeeds exactly for the 16-bit v below 2^11 and
\* ExtendedID::new(v) exactly for the 32-bit v below 2^29 (hi half below
\* 2^13), otherwise it panics; converting a constructed identifier back
\* yields v.
C8_IdValidatedLossless ==
    /\ id_pc # "input" /\ id_kind = "Base"
        => /\ (id_pc = "panicked") = (id_in >= 2048)
           /\ id_pc # "panicked" => id_obj.type = "BaseID" /\ id_obj.raw < 2048
    /\ id_pc # "input" /\ id_kind = "Extended"
        => /\ (id_pc = "panicked") = (id_in.hi >= 8192)
           /\ id_pc # "panicked" => id_obj.type = "ExtendedID" /\ id_obj.raw.hi < 8192
    /\ id_pc = "converted" => id_out = id_in

C8_Witness ==
    /\ id_kind = "Extended" /\ id_pc = "converted"
    /\ id_in = U32(8191, 65535) /\ id_out = U32(8191, 65535)

(***************************************************************************)
(* can::ID, can::BaseDataFrame, can::ExtendedDataFrame, can::DataFrame     *)
(* A frame is [kind, id, dlc, data]: kind is the DataFrame variant, data    *)
(* the backing [u8; 8] (indexed from 1 here, from 0 in the code).          *)
(***************************************************************************)
DataLen == 8
U8Mod == 256

\* as u8
AsU8(n) == n % U8Mod

ID_BaseID(id) == [variant |-> "BaseID", id |-> id]
ID_ExtendedID(id) == [variant |-> "ExtendedID", id |-> id]

ZeroData == [i \in 1..DataLen |-> 0]

\* ExtendedDataFrame::new
ExtendedDataFrame_new(id) ==
    [kind |-> "Extended", id |-> id, dlc |-> 0, data |-> ZeroData]

\* ExtendedDataFrame::set_data_length: assert!(length <= 8); self.dlc = length as u8
ExtendedDataFrame_set_data_length(f, length) ==
    IF length <= DataLen
    THEN [ok |-> TRUE, frame |-> [f EXCEPT !.dlc = AsU8(length)]]
    ELSE [ok |-> FALSE, frame |-> f]

\* ExtendedDataFrame::data: &self.data[0..(self.dlc as usize)]
ExtendedDataFrame_data(f) == SubSeq(f.data, 1, f.dlc)

\* ExtendedDataFrame::data_as_mut: the indices of self.data the view covers
ExtendedDataFrame_data_as_mut(f) == 1..f.dlc

\* BaseDataFrame::new
BaseDataFrame_new(id) ==
    [kind |-> "Base", id |-> id, dlc |-> 0, data |-> ZeroData]

\* Mutant: the length is stored without the assertion.
BaseDataFrame_set_data_length_Unchecked(f, length) ==
    [ok |-> TRUE, frame |-> [f EXCEPT !.dlc = AsU8(length)]]

\* BaseDataFrame::set_data_length: assert!(length <= 8); self.dlc = length as u8
BaseDataFrame_set_data_length(f, length) ==
    IF length <= DataLen
    THEN [ok |-> TRUE, frame |-> [f EXCEPT !.dlc = AsU8(length)]]
    ELSE [ok |-> FALSE, frame |-> f]

\* BaseDataFrame::data: &self.data[0..(self.dlc as usize)]
BaseDataFrame_data(f) == SubSeq(f.data, 1, f.dlc)

\* Mutant: the mutable view covers the whole backing storage.
BaseDataFrame_data_as_mut_Whole(f) == 1..DataLen

\* BaseDataFrame::data_as_mut: the indices of self.data the view covers
BaseDataFrame_data_as_mut(f) == 1..f.dlc

\* DataFrame::new
DataFrame_new(id) ==
    IF id.variant = "BaseID"
    THEN BaseDataFrame_new(id.id)
    ELSE ExtendedDataFrame_new(id.id)

\* DataFrame::set_data_length
DataFrame_set_data_length(f, length) ==
    IF f.kind = "Base"
    THEN BaseDataFrame_set_data_length(f, length)
    ELSE ExtendedDataFrame_set_data_length(f, length)

\* DataFrame::data
DataFrame_data(f) ==
    IF f.kind = "Base" THEN BaseDataFrame_data(f) ELSE ExtendedDataFrame_data(f)

\* DataFrame::data_as_mut
DataFrame_data_as_mut(f) ==
    IF f.kind = "Base"
    THEN BaseDataFrame_data_as_mut(f)
    ELSE ExtendedDataFrame_data_as_mut(f)

\* DataFrame::id
DataFrame_id(f) ==
    IF f.kind = "Base" THEN ID_BaseID(f.id) ELSE ID_ExtendedID(f.id)

\* #[derive(PartialEq)] on DataFrame, BaseDataFrame and ExtendedDataFrame:
\* the same variant and every field equal, the whole of data included.
DataFrame_eq(a, b) ==
    /\ a.kind = b.kind
    /\ a.id = b.id
    /\ a.dlc = b.dlc
    /\ a.data = b.data

\* frame.data_as_mut()[i] = b, i counted from 0: a slice index out of the
\* view's bounds panics.
ViewIndexWrite(f, i, b) ==
    IF i + 1 \in DataFrame_data_as_mut(f)
    THEN [ok |-> TRUE, frame |-> [f EXCEPT !.data[i + 1] = b]]
    ELSE [ok |-> FALSE, frame |-> f]

\* The identifiers frames are made for, each built by its constructor
\* (0x123 as a base and as an extended identifier, 0x7ff).
FrameIDs ==
    {ID_BaseID(BaseID_new(291).id), ID_BaseID(BaseID_new(2047).id),
     ID_ExtendedID(ExtendedID_new(U32(0, 291)).id)}

\* The bytes written into payloads, and the lengths passed to
\* set_data_length: 0..MaxLengthArg and two that `as u8` would wrap to 0 and 8.
PayloadBytes == {0, 222}
MaxLengthArg == 10
LengthArgs == (0..MaxLengthArg) \cup {U8Mod, U8Mod + DataLen}

InitFrame ==
    /\ \E id \in FrameIDs : fr = DataFrame_new(id)
    /\ fr_panic = "none"
    /\ fr_arg = NoArg
    /\ IdleID /\ IdleScenario /\ IdleIo

\* let frame = DataFrame::new(id): a fresh frame replaces the one held.
FrameNew ==
    /\ fr_panic = "none"
    /\ \E id \in FrameIDs : fr' = DataFrame_new(id)
    /\ fr_arg' = NoArg
    /\ UNCHANGED <<fr_panic, idVars, scVars, ioVars>>

\* frame.set_data_length(length)
FrameSetDataLength ==
    /\ fr_panic = "none"
    /\ \E length \in LengthArgs :
        LET r == DataFrame_set_data_length(fr, length) IN
        /\ fr' = r.frame
        /\ fr_panic' = IF r.ok THEN "none" ELSE "set_data_length"
        /\ fr_arg' = length
    /\ UNCHANGED <<idVars, scVars, ioVars>>

\* frame.data_as_mut()[i] = b
FrameWrite ==
    /\ fr_panic = "none"
    /\ \E i \in 0..DataLen, b \in PayloadBytes :
        LET r == ViewIndexWrite(fr, i, b) IN
        /\ fr' = r.frame
        /\ fr_panic' = IF r.ok THEN "none" ELSE "index"
    /\ UNCHANGED <<fr_arg, idVars, scVars, ioVars>>

NextFrame == FrameNew \/ FrameSetDataLength \/ FrameWrite

SpecFrame == InitFrame /\ [][NextFrame]_vars

\* C5: the declared length is at most 8 in every state; after
\* set_data_length(n) with n <= 8 the views of data() and data_as_mut() have
\* length n; with n > 8 the call panics and the stored length stays.
C5_DeclaredLength ==
    /\ fr.dlc <= 8
    /\ fr_arg \in 0..8
        => /\ fr_panic # "set_data_length"
           /\ Len(DataFrame_data(fr)) = fr_arg
           /\ Cardinality(DataFrame_data_as_mut(fr)) = fr_arg
    /\ fr_arg > 8 => fr_panic = "set_data_length"
    /\ fr_arg = NoArg => Len(DataFrame_data(fr)) = 0

C5_Witness ==
    /\ fr_arg = 5 /\ fr_panic = "none" /\ fr.kind = "Extended"
    /\ Len(DataFrame_data(fr)) = 5 /\ fr.data[8] = 222

\* The frame a caller builds from what fr shows: DataFrame::new(fr.id()),
\* set_data_length(fr.data().len()), and every byte of fr.data() written
\* through data_as_mut().
RECURSIVE FillFrom(_, _, _)
FillFrom(f, B, i) ==
    IF i >= Len(B) THEN f
    ELSE FillFrom(ViewIndexWrite(f, i, B[i + 1]).frame, B, i + 1)

Rebuilt(f) ==
    LET shown == DataFrame_data(f)
        g == DataFrame_set_data_length(DataFrame_new(DataFrame_id(f)), Len(shown)).frame
    IN FillFrom(g, shown, 0)

\* C6: bytes of the backing storage at or beyond the declared length are never
\* observable: a frame and the frame rebuilt from its identifier and data()
\* compare equal, and show the same data() after any later set_data_length.
C6_HiddenBytesUnobservable ==
    fr_panic = "none" =>
        LET g == Rebuilt(fr) IN
        /\ DataFrame_data(g) = DataFrame_data(fr)
        /\ DataFrame_eq(fr, g)
        /\ \A n \in 0..DataLen :
              DataFrame_data(DataFrame_set_data_length(fr, n).frame)
                = DataFrame_data(DataFrame_set_data_length(g, n).frame)

(***************************************************************************)
(* A caller that makes a frame with DataFrame::new and then sets its       *)
(* length to B.len() and writes B through data_as_mut(), in either order.  *)
(* B is written either by index (view[i] = B[i] for i in 0..B.len(), which *)
(* panics at the first index outside the view) or by a copy limited to the *)
(* shorter of the two (view.iter_mut().zip(B)).                            *)
(***************************************************************************)
RECURSIVE FillIndexed(_, _, _)
FillIndexed(f, B, i) ==
    IF i >= Len(B) THEN [ok |-> TRUE, frame |-> f]
    ELSE LET r == ViewIndexWrite(f, i, B[i + 1]) IN
         IF r.ok THEN FillIndexed(r.frame, B, i + 1) ELSE r

FillZipped(f, B) ==
    LET n == Min(Cardinality(DataFrame_data_as_mut(f)), Len(B)) IN
    [ok |-> TRUE, frame |-> FillFrom(f, SubSeq(B, 1, n), 0)]

InitScenario ==
    /\ \E id \in FrameIDs : fr = DataFrame_new(id)
    /\ fr_panic = "none"
    /\ fr_arg = NoArg
    /\ sc_order \in {"length_then_fill", "fill_then_length"}
    /\ sc_how \in {"index", "zip"}
    /\ sc_B \in SeqsUpTo(PayloadBytes, DataLen)
    /\ sc_step = 0
    /\ IdleID /\ IdleIo

\* frame.set_data_length(B.len())
ScenarioSetLength ==
    /\ fr_panic = "none"
    /\ \/ sc_order = "length_then_fill" /\ sc_step = 0
       \/ sc_order = "fill_then_length" /\ sc_step = 1
    /\ LET r == DataFrame_set_data_length(fr, Len(sc_B)) IN
        /\ fr' = r.frame
        /\ fr_panic' = IF r.ok THEN "none" ELSE "set_data_length"
    /\ fr_arg' = Len(sc_B)
    /\ sc_step' = sc_step + 1
    /\ UNCHANGED <<sc_order, sc_how, sc_B, idVars, ioVars>>

\* B is written through frame.data_as_mut()
ScenarioFill ==
    /\ fr_panic = "none"
    /\ \/ sc_order = "fill_then_length" /\ sc_step = 0
       \/ sc_order = "length_then_fill" /\ sc_step = 1
    /\ LET r == IF sc_how = "index" THEN FillIndexed(fr, sc_B, 0)
                ELSE FillZipped(fr, sc_B) IN
        /\ fr' = r.frame
        /\ fr_panic' = IF r.ok THEN "none" ELSE "index"
    /\ sc_step' = sc_step + 1
    /\ UNCHANGED <<fr_arg, sc_order, sc_how, sc_B, idVars, ioVars>>

NextScenario == ScenarioSetLength \/ ScenarioFill

SpecScenario == InitScenario /\ [][NextScenario]_vars

ScenarioOver == sc_order # "none" /\ (sc_step = 2 \/ fr_panic # "none")

====
